---- MODULE Spec2Model ----
(***************************************************************************)
(* Model of the Code Assist client (packages/core/src/code_assist/         *)
(* server.ts): one call of a CodeAssistServer, from its invocation to its  *)
(* result, with the audit logger as a fire-and-forget side channel and,    *)
(* for the streaming call, the line decoder of requestStreamingPost.       *)
(*                                                                         *)
(* A second call, with its own state, stands for another dispatcher or    *)
(* for a concurrent call to the same server; getMethodUrl is followed     *)
(* under a changing environment.  The generator of generateContentStream, *)
(* the headers of a request and the SessionLogger (core/session-logger.ts) *)
(* have their own steps and specifications.                                *)
(*                                                                         *)
(* Text is a sequence of one-character strings.  A line of the response    *)
(* stream is such a sequence; the empty sequence is the blank line.        *)
(***************************************************************************)
EXTENDS Integers, Sequences, FiniteSets, TLC

VARIABLES
    hasLogger,      \* the server was constructed with a sessionLogger
    pc,             \* position of the call: idle, sending, await_transport, returning, done
    op,             \* the operation invoked
    req,            \* the caller's request
    sig,            \* the call hands the caller's AbortSignal to the transport
    aborted,        \* that signal has fired
    transportCalls, \* number of client.request invocations
    tres,           \* how client.request settled
    outcome,        \* what the caller got: none, returned, raised, sequence
    retVal,         \* the value returned
    raisedErr,      \* the error raised
    logs,           \* the log calls made so far, each with the state of its promise
    gpc,            \* position of the generator returned by requestStreamingPost
    bufferedLines,  \* the generator's pending fragments
    chunk,          \* the message parsed and about to be yielded
    yielded,        \* the messages handed to the consumer, in order
    gerr,           \* the error the generator raised to the consumer
    delivered,      \* the lines the generator has read from the response, in order
    streamState,    \* the response's line stream: open, end, error
    fragsAccepted,  \* history: every fragment pushed to bufferedLines, in order
    fragsEmitted,   \* history: the fragments of the messages yielded, in order
    pulled,         \* the consumer has asked the generator for a message
    donePulls,      \* number of times the consumer asked the ended generator again
    env,            \* process.env['CODE_ASSIST_ENDPOINT']: unset, or a string
    urlCalls,       \* history: the getMethodUrl calls made, each with its result
    \* a second call, with the same state as the first
    hasLogger2, pc2, op2, req2, sig2, aborted2, transportCalls2, tres2, outcome2,
    retVal2, raisedErr2, logs2, gpc2, bufferedLines2, chunk2, yielded2, gerr2,
    delivered2, streamState2, fragsAccepted2, fragsEmitted2, pulled2,
    \* the generator returned by generateContentStream, around the first call's
    opc,            \* its position: none, open, done
    results,        \* the converted results it has yielded, in order
    oerr,           \* the error it raised to its consumer
    \* a SessionLogger
    initialized,    \* its field initialized
    logFilePath,    \* its field logFilePath is set
    initCalls,      \* the initialize calls made, each with its position
    logCalls,       \* the log calls made, each with its position
    file,           \* the log file: the entries appended, in file order
    diag,           \* what was written to the console
    mkdirs,         \* number of fs.mkdir calls
    \* the headers of the requests
    httpHeaders,    \* httpOptions.headers, as given to the constructor
    sent            \* history: the requests handed to client.request

vars == <<hasLogger, pc, op, req, sig, aborted, transportCalls, tres, outcome,
          retVal, raisedErr, logs, gpc, bufferedLines, chunk, yielded, gerr,
          delivered, streamState, fragsAccepted, fragsEmitted, pulled,
          donePulls, env, urlCalls,
          hasLogger2, pc2, op2, req2, sig2, aborted2, transportCalls2, tres2,
          outcome2, retVal2, raisedErr2, logs2, gpc2, bufferedLines2, chunk2,
          yielded2, gerr2, delivered2, streamState2, fragsAccepted2,
          fragsEmitted2, pulled2, opc, results, oerr,
          initialized, logFilePath, initCalls, logCalls, file, diag, mkdirs,
          httpHeaders, sent>>

callVars == <<pc, op, req, sig, transportCalls, tres, outcome, retVal, raisedErr>>
genVars == <<gpc, bufferedLines, chunk, yielded, gerr, delivered, streamState,
             fragsAccepted, fragsEmitted, pulled>>

\* the variables that only the steps of the other specifications change
urlVars == <<env, urlCalls>>
callVars2 == <<pc2, op2, req2, sig2, transportCalls2, tres2, outcome2, retVal2,
               raisedErr2>>
genVars2 == <<gpc2, bufferedLines2, chunk2, yielded2, gerr2, delivered2,
              streamState2, fragsAccepted2, fragsEmitted2, pulled2>>
firstVars == <<hasLogger, aborted, logs, callVars, genVars>>
secondVars == <<hasLogger2, aborted2, logs2, callVars2, genVars2>>
wrapVars == <<opc, results, oerr>>
slVars == <<initialized, logFilePath, initCalls, logCalls, file, diag, mkdirs>>
hdrVars == <<httpHeaders, sent>>
extraVars == <<wrapVars, slVars, hdrVars>>
otherVars == <<donePulls, urlVars, secondVars, extraVars>>

----------------------------------------------------------------------------
(* Bounds of the model *)

\* the longest line stream a response delivers
MaxLines == 4
\* the longest error.details list of a transport error
MaxDetails == 2
\* how often the consumer asks a generator that has ended
MaxDonePulls == 1
\* how many getMethodUrl calls are followed
MaxUrlCalls == 2
\* the longest line stream of each of two concurrent streaming calls
MaxStreamLines == 3
\* how many requests are followed for their headers
MaxSent == 2
\* how many initialize calls and how many log calls a SessionLogger gets
MaxInitCalls == 3
MaxLogCalls == 2

----------------------------------------------------------------------------
(* Text *)

WS == {" ", "\n", "\t", "\r"}

RECURSIVE TrimStart(_)
TrimStart(s) ==
    IF s # <<>> /\ Head(s) \in WS THEN TrimStart(Tail(s)) ELSE s

RECURSIVE TrimEnd(_)
TrimEnd(s) ==
    IF s # <<>> /\ s[Len(s)] \in WS THEN TrimEnd(SubSeq(s, 1, Len(s) - 1)) ELSE s

\* String.prototype.trim
Trim(s) == TrimEnd(TrimStart(s))

\* the payload prefix 'data: '
DataPrefix == <<"d", "a", "t", "a", ":", " ">>

\* line.startsWith('data: ')
StartsWithData(line) ==
    /\ Len(line) >= Len(DataPrefix)
    /\ SubSeq(line, 1, Len(DataPrefix)) = DataPrefix

\* line.slice(6).trim()
Fragment(line) == Trim(SubSeq(line, Len(DataPrefix) + 1, Len(line)))

\* bufferedLines.join('\n'), without the separator (a faulty join)
RECURSIVE JoinLines_noSeparator(_)
JoinLines_noSeparator(frags) ==
    IF frags = <<>> THEN <<>>
    ELSE Head(frags) \o JoinLines_noSeparator(Tail(frags))

\* bufferedLines.join('\n')
RECURSIVE JoinLines(_)
JoinLines(frags) ==
    IF frags = <<>> THEN <<>>
    ELSE IF Len(frags) = 1 THEN Head(frags)
    ELSE Head(frags) \o <<"\n">> \o JoinLines(Tail(frags))

----------------------------------------------------------------------------
(* JSON values and JSON.parse, for texts over the characters the model's   *)
(* lines are made of: the digit 1, braces, white space and letters.  Over  *)
(* these characters the JSON texts are exactly: white space, then either a *)
(* run of digits or an object with no member, then white space.            *)

NoVal == [kind |-> "none", n |-> 0]
Num(k) == [kind |-> "num", n |-> k]
EmptyObj == [kind |-> "obj", n |-> 0]
StandardTier == [kind |-> "tier_STANDARD", n |-> 0]

AllIn(s, set) == \A i \in 1..Len(s) : s[i] \in set

RECURSIVE DigitsValue(_)
DigitsValue(s) ==
    IF s = <<>> THEN 0 ELSE 10 * DigitsValue(SubSeq(s, 1, Len(s) - 1)) + 1

JSONParse(text) ==
    LET t == Trim(text) IN
    IF t # <<>> /\ AllIn(t, {"1"})
      THEN [ok |-> TRUE, val |-> Num(DigitsValue(t))]
    ELSE IF /\ Len(t) >= 2
            /\ t[1] = "{"
            /\ t[Len(t)] = "}"
            /\ AllIn(SubSeq(t, 2, Len(t) - 1), WS)
      THEN [ok |-> TRUE, val |-> EmptyObj]
    ELSE [ok |-> FALSE, val |-> NoVal]

----------------------------------------------------------------------------
(* The lines a response can deliver *)

Blank == <<>>
DataOne == DataPrefix \o <<" ", "1", " ">>
DataOpen == DataPrefix \o <<"{">>
DataClose == DataPrefix \o <<"}">>
DataEmpty == DataPrefix
DataNoSpace == <<"d", "a", "t", "a", ":", "1">>
Oops == <<"o", "o", "p", "s">>

Lines == {Blank, DataOne, DataOpen, DataClose, DataEmpty, DataNoSpace, Oops}

----------------------------------------------------------------------------
(* Errors.  Every error value is a record of one shape: src says where it  *)
(* comes from, line is the offending line of a decode error, and the other *)
(* fields are what isVpcScAffectedUser looks at.                           *)

Reasons == {"SECURITY_POLICY_VIOLATED", "OTHER", "undefined"}

ErrorValue(src, line, isObject, hasResponse, payload, detailsKind, details) ==
    [src |-> src, line |-> line, isObject |-> isObject,
     hasResponse |-> hasResponse, payload |-> payload,
     detailsKind |-> detailsKind, details |-> details]

NoError == ErrorValue("none", <<>>, FALSE, FALSE, "none", "undefined", <<>>)

\* new Error(`Unexpected line format in response: ${line}`)
FormatError(line) ==
    ErrorValue("format", line, TRUE, FALSE, "none", "undefined", <<>>)

\* the SyntaxError of JSON.parse
SyntaxError == ErrorValue("syntax", <<>>, TRUE, FALSE, "none", "undefined", <<>>)

\* what a throwing log call throws
LoggerError == ErrorValue("logger", <<>>, TRUE, FALSE, "none", "undefined", <<>>)

\* what the line stream of a cancelled response raises
AbortError == ErrorValue("abort", <<>>, TRUE, FALSE, "none", "undefined", <<>>)

TransportError(isObject, hasResponse, payload, detailsKind, details) ==
    ErrorValue("transport", <<>>, isObject, hasResponse, payload, detailsKind, details)

DetailLists == UNION {[1..n -> Reasons] : n \in 0..MaxDetails}

\* the values client.request can reject with: a non-object, an error with no
\* response, a response with no data, data with no error, an error object
\* whose details are missing or not an array, and every details list
TransportErrors ==
    {TransportError(FALSE, FALSE, "none", "undefined", <<>>),
     TransportError(TRUE, FALSE, "none", "undefined", <<>>),
     TransportError(TRUE, TRUE, "no_data", "undefined", <<>>),
     TransportError(TRUE, TRUE, "no_error", "undefined", <<>>),
     TransportError(TRUE, TRUE, "error", "undefined", <<>>),
     TransportError(TRUE, TRUE, "error", "not_array", <<>>)}
    \cup {TransportError(TRUE, TRUE, "error", "array", ds) : ds \in DetailLists}

\* details.some((detail) => detail.reason === ...), looking at the first entry only
DetailsSome_firstOnly(details, reason) ==
    details # <<>> /\ details[1] = reason

\* details.some((detail) => detail.reason === reason)
DetailsSome(details, reason) ==
    \E i \in 1..Len(details) : details[i] = reason

isVpcScAffectedUser(error) ==
    IF error.isObject /\ error.hasResponse
      THEN IF error.payload = "error" /\ error.detailsKind = "array"
             THEN DetailsSome(error.details, "SECURITY_POLICY_VIOLATED")
             ELSE FALSE
      ELSE FALSE

----------------------------------------------------------------------------
(* Operations *)

UnaryPostOps == {"generateContent", "onboardUser", "loadCodeAssist",
                 "setCodeAssistGlobalUserSetting", "countTokens"}
UnaryGetOps == {"getCodeAssistGlobalUserSetting"}
StreamOps == {"generateContentStream"}
Ops == UnaryPostOps \cup UnaryGetOps \cup StreamOps

\* the operations that pass req.config?.abortSignal on
SignalOps == {"generateContent", "generateContentStream"}

Requests == {"r1", "r2"}

\* the response bodies of a unary call
Bodies == {Num(1), EmptyObj}

\* the method name each operation puts in the URL
MethodOf(o) ==
    IF o = "generateContentStream" THEN "streamGenerateContent" ELSE o

HttpMethodOf(o) == IF o \in UnaryGetOps THEN "GET" ELSE "POST"

\* the wire body of the request: the converter applied, if any, and the request
WireBody(o, r) ==
    CASE o \in {"generateContent", "generateContentStream"} ->
             [conv |-> "toGenerateContentRequest", req |-> r]
      [] o = "countTokens" -> [conv |-> "toCountTokenRequest", req |-> r]
      [] o \in UnaryGetOps -> [conv |-> "none", req |-> "none"]
      [] OTHER -> [conv |-> "none", req |-> r]

\* what the operation returns for a response body: the converter applied, if any
Converted(o, body) ==
    CASE o = "generateContent" -> [conv |-> "fromGenerateContentResponse", val |-> body]
      [] o = "countTokens" -> [conv |-> "fromCountTokenResponse", val |-> body]
      [] OTHER -> [conv |-> "none", val |-> body]

NoRet == [conv |-> "none", val |-> NoVal]

\* the catch clause of loadCodeAssist, applied by every operation
Recovers_everyOp(o, e) == isVpcScAffectedUser(e)

\* an error of requestPost is turned into the default tier: only by
\* loadCodeAssist, only for the classified error
Recovers(o, e) == o = "loadCodeAssist" /\ isVpcScAffectedUser(e)

----------------------------------------------------------------------------
(* The audit logger *)

\* the entry of a log call that files everything as a request
LogEntry_wrongType(type, o, sse, body, response) ==
    [type |-> "model_request", method |-> MethodOf(o), http |-> HttpMethodOf(o),
     sse |-> sse, body |-> body, response |-> response, status |-> "pending"]

\* the entry of the log call log(type, {url, method, params, body, response})
LogEntry(type, o, sse, body, response) ==
    [type |-> type, method |-> MethodOf(o), http |-> HttpMethodOf(o),
     sse |-> sse, body |-> body, response |-> response, status |-> "pending"]

\* this.sessionLogger.log(type, data), without the ?. : with no logger the
\* call throws
LogCallOf_unguarded(present, lg, entry) ==
    IF present
      THEN {[logs |-> Append(lg, entry), threw |-> FALSE],
            [logs |-> Append(lg, [entry EXCEPT !.status = "threw"]), threw |-> TRUE]}
      ELSE {[logs |-> lg, threw |-> TRUE]}

\* this.sessionLogger?.log(type, data): no call without a logger; with one,
\* the call returns a promise (pending until it settles) or throws
LogCallOf(present, lg, entry) ==
    IF present
      THEN {[logs |-> Append(lg, entry), threw |-> FALSE],
            [logs |-> Append(lg, [entry EXCEPT !.status = "threw"]), threw |-> TRUE]}
      ELSE {[logs |-> lg, threw |-> FALSE]}

\* the log call of the first call
LogCall(lg, entry) == LogCallOf(hasLogger, lg, entry)

Pending(lg) == {i \in 1..Len(lg) : lg[i].status = "pending"}

\* the dispatcher goes on after a log call only when log's promise has settled
ContinuesAfterLog_awaited(lg) == Pending(lg) = {}

\* the dispatcher goes on after a log call at once: log's promise is not awaited
ContinuesAfterLog(lg) == TRUE

----------------------------------------------------------------------------
(* getMethodUrl: the URL of a method *)

\* CODE_ASSIST_ENDPOINT, 'https://cloudcode-pa.googleapis.com'
CODE_ASSIST_ENDPOINT ==
    <<"h", "t", "t", "p", "s", ":", "/", "/", "c", "l", "o", "u", "d", "c", "o",
      "d", "e", "-", "p", "a", ".", "g", "o", "o", "g", "l", "e", "a", "p", "i",
      "s", ".", "c", "o", "m">>

\* CODE_ASSIST_API_VERSION, 'v1internal'
CODE_ASSIST_API_VERSION == <<"v", "1", "i", "n", "t", "e", "r", "n", "a", "l">>

\* process.env['CODE_ASSIST_ENDPOINT'] is undefined
Unset == [set |-> FALSE, value |-> <<>>]

\* process.env['CODE_ASSIST_ENDPOINT'] is the string v
SetTo(v) == [set |-> TRUE, value |-> v]

\* the values the environment gives the override: unset, another host, a
\* host with a trailing slash, the empty string
EnvValues ==
    {Unset,
     SetTo(<<"h", "t", "t", "p", ":", "/", "/", "x">>),
     SetTo(<<"h", "t", "t", "p", ":", "/", "/", "x", "/">>),
     SetTo(<<>>)}

\* the method names asked for
MethodNames ==
    {<<"c", "o", "u", "n", "t", "T", "o", "k", "e", "n", "s">>,
     <<"l", "o", "a", "d", "C", "o", "d", "e", "A", "s", "s", "i", "s", "t">>,
     <<"m">>}

\* the endpoint, were it chosen with || : an empty override gives the default
EndpointOf_orFalsy(e) ==
    IF e.set /\ e.value # <<>> THEN e.value ELSE CODE_ASSIST_ENDPOINT

\* process.env['CODE_ASSIST_ENDPOINT'] ?? CODE_ASSIST_ENDPOINT
EndpointOf(e) == IF e.set THEN e.value ELSE CODE_ASSIST_ENDPOINT

\* `${endpoint}/${CODE_ASSIST_API_VERSION}:${method}`
getMethodUrl(e, method) ==
    EndpointOf(e) \o <<"/">> \o CODE_ASSIST_API_VERSION \o <<":">> \o method

----------------------------------------------------------------------------
(* The headers of a request: { 'Content-Type': 'application/json',         *)
(* ...this.httpOptions.headers }.  An object is a function from its keys.  *)

HeaderNames == {"Content-Type", "content-type", "X-Goog-Api-Client"}
HeaderValues == {"application/json", "text/plain"}

\* an object with no key
EmptyObject == [n \in {} |-> "application/json"]

\* httpOptions = {}, the constructor's default: headers is undefined
NoHeaders == [defined |-> FALSE, map |-> EmptyObject]

\* the values of httpOptions.headers: undefined, or an object of headers
CallerHeaders ==
    {NoHeaders} \cup
    {[defined |-> TRUE, map |-> f] :
        f \in UNION {[D -> HeaderValues] : D \in SUBSET HeaderNames}}

\* { ...a, ...b }: the keys of both, b's value where both have the key
Spread(a, b) ==
    [n \in DOMAIN a \cup DOMAIN b |-> IF n \in DOMAIN b THEN b[n] ELSE a[n]]

ContentTypeJson == [n \in {"Content-Type"} |-> "application/json"]

\* the headers, with the caller's spread before the Content-Type entry
RequestHeaders_callerFirst(h) ==
    Spread(IF h.defined THEN h.map ELSE EmptyObject, ContentTypeJson)

\* the headers of a request; spreading undefined adds nothing
RequestHeaders(h) ==
    Spread(ContentTypeJson, IF h.defined THEN h.map ELSE EmptyObject)

\* requestGet, requestPost or requestStreamingPost hands a request to
\* client.request
HandRequest(kind) ==
    /\ Len(sent) < MaxSent
    /\ sent' = Append(sent, [kind |-> kind, headers |-> RequestHeaders(httpHeaders)])
    /\ UNCHANGED httpHeaders
    /\ UNCHANGED <<firstVars, secondVars, donePulls, urlVars, wrapVars, slVars>>

----------------------------------------------------------------------------
(* The state after construction: a server with or without a sessionLogger, *)
(* no call made yet.                                                       *)

NoResult == [status |-> "none", body |-> NoVal, err |-> NoError]

InitFirst ==
    /\ hasLogger \in BOOLEAN
    /\ pc = "idle"
    /\ op = "none"
    /\ req = "none"
    /\ sig = FALSE
    /\ aborted = FALSE
    /\ transportCalls = 0
    /\ tres = NoResult
    /\ outcome = "none"
    /\ retVal = NoRet
    /\ raisedErr = NoError
    /\ logs = <<>>
    /\ gpc = "none"
    /\ bufferedLines = <<>>
    /\ chunk = NoVal
    /\ yielded = <<>>
    /\ gerr = NoError
    /\ delivered = <<>>
    /\ streamState = "open"
    /\ fragsAccepted = <<>>
    /\ fragsEmitted = <<>>
    /\ pulled = FALSE
    /\ donePulls = 0
    /\ env = Unset
    /\ urlCalls = <<>>
    /\ opc = "none"
    /\ results = <<>>
    /\ oerr = NoError
    /\ initialized = FALSE
    /\ logFilePath = FALSE
    /\ initCalls = <<>>
    /\ logCalls = <<>>
    /\ file = <<>>
    /\ diag = <<>>
    /\ mkdirs = 0
    /\ sent = <<>>

\* the second call has not been made
InitSecond ==
    /\ pc2 = "idle"
    /\ op2 = "none"
    /\ req2 = "none"
    /\ sig2 = FALSE
    /\ aborted2 = FALSE
    /\ transportCalls2 = 0
    /\ tres2 = NoResult
    /\ outcome2 = "none"
    /\ retVal2 = NoRet
    /\ raisedErr2 = NoError
    /\ logs2 = <<>>
    /\ gpc2 = "none"
    /\ bufferedLines2 = <<>>
    /\ chunk2 = NoVal
    /\ yielded2 = <<>>
    /\ gerr2 = NoError
    /\ delivered2 = <<>>
    /\ streamState2 = "open"
    /\ fragsAccepted2 = <<>>
    /\ fragsEmitted2 = <<>>
    /\ pulled2 = FALSE

\* a server, with or without a sessionLogger, and no call made yet; a second
\* call is a call to the same server
Init ==
    /\ InitFirst
    /\ InitSecond
    /\ hasLogger2 = hasLogger
    /\ httpHeaders = NoHeaders

----------------------------------------------------------------------------
(* The call, up to its result *)

\* where the call stands after a failure, were the request issued again
AfterFailure_retry(o, e) == "sending"

\* where the call stands after a failure: it is over, nothing is issued again
AfterFailure(o, e) == "done"

\* the operation ends with the error e of requestPost, requestGet or
\* requestStreamingPost: loadCodeAssist's catch, or the error goes to the caller
Fail(o, e) ==
    /\ pc' = AfterFailure(o, e)
    /\ IF Recovers(o, e)
         THEN /\ outcome' = "returned"
              /\ retVal' = [conv |-> "none", val |-> StandardTier]
              /\ raisedErr' = raisedErr
         ELSE /\ outcome' = "raised"
              /\ raisedErr' = e
              /\ retVal' = retVal

\* an operation is called: getMethodUrl, then the request is logged
Invoke(o, r) ==
    /\ pc = "idle"
    /\ op' = o
    /\ req' = IF o \in UnaryGetOps THEN "none" ELSE r
    /\ sig' = (o \in SignalOps)
    /\ \E lr \in LogCall(logs,
                   LogEntry("model_request", o, o \in StreamOps,
                            WireBody(o, r), NoVal)) :
          /\ logs' = lr.logs
          /\ IF lr.threw
               THEN Fail(o, LoggerError)
               ELSE /\ pc' = "sending"
                    /\ UNCHANGED <<outcome, retVal, raisedErr>>
    /\ UNCHANGED <<hasLogger, aborted, transportCalls, tres>>
    /\ UNCHANGED genVars
    /\ UNCHANGED otherVars

\* client.request is invoked and awaited
Send ==
    /\ pc = "sending"
    /\ ContinuesAfterLog(logs)
    /\ pc' = "await_transport"
    /\ transportCalls' = transportCalls + 1
    /\ UNCHANGED <<hasLogger, op, req, sig, aborted, tres, outcome, retVal,
                   raisedErr, logs>>
    /\ UNCHANGED genVars
    /\ UNCHANGED otherVars

\* client.request rejects with e: the error leaves requestPost, requestGet or
\* requestStreamingPost as it is
TransportReject(e) ==
    /\ pc = "await_transport"
    /\ tres' = [status |-> "rejected", body |-> NoVal, err |-> e]
    /\ Fail(op, e)
    /\ UNCHANGED <<hasLogger, op, req, sig, aborted, transportCalls, logs>>
    /\ UNCHANGED genVars
    /\ UNCHANGED otherVars

\* client.request of a unary call resolves with the body b: the response is logged
TransportResolveUnary(b) ==
    /\ pc = "await_transport"
    /\ op \notin StreamOps
    /\ tres' = [status |-> "resolved", body |-> b, err |-> NoError]
    /\ \E lr \in LogCall(logs,
                   LogEntry("model_response", op, FALSE,
                            [conv |-> "none", req |-> "none"], b)) :
          /\ logs' = lr.logs
          /\ IF lr.threw
               THEN Fail(op, LoggerError)
               ELSE /\ pc' = "returning"
                    /\ UNCHANGED <<outcome, retVal, raisedErr>>
    /\ UNCHANGED <<hasLogger, op, req, sig, aborted, transportCalls>>
    /\ UNCHANGED genVars
    /\ UNCHANGED otherVars

\* return res.data, through the operation's converter
Return ==
    /\ pc = "returning"
    /\ ContinuesAfterLog(logs)
    /\ pc' = "done"
    /\ outcome' = "returned"
    /\ retVal' = Converted(op, tres.body)
    /\ UNCHANGED <<hasLogger, op, req, sig, aborted, transportCalls, tres,
                   raisedErr, logs>>
    /\ UNCHANGED genVars
    /\ UNCHANGED otherVars

\* a generator that reads the response as soon as it is created
InitialGenState_eager == "gen_wait_line"

\* the generator function has been called and no next(): its body has not started
InitialGenState == "gen_start"

\* client.request of the streaming call resolves with a response stream:
\* requestStreamingPost returns the generator, not yet started
TransportResolveStream ==
    /\ pc = "await_transport"
    /\ op \in StreamOps
    /\ tres' = [status |-> "resolved", body |-> NoVal, err |-> NoError]
    /\ pc' = "done"
    /\ outcome' = "sequence"
    /\ gpc' = InitialGenState
    /\ UNCHANGED <<hasLogger, op, req, sig, aborted, transportCalls, retVal,
                   raisedErr, logs>>
    /\ UNCHANGED <<bufferedLines, chunk, yielded, gerr, delivered, streamState,
                   fragsAccepted, fragsEmitted, pulled>>
    /\ UNCHANGED otherVars

\* a promise returned by log settles
LogSettle(i, st) ==
    /\ i \in Pending(logs)
    /\ logs' = [logs EXCEPT ![i].status = st]
    /\ UNCHANGED <<hasLogger, aborted>>
    /\ UNCHANGED callVars
    /\ UNCHANGED genVars
    /\ UNCHANGED otherVars

----------------------------------------------------------------------------
(* The generator returned by requestStreamingPost *)

\* how the loop body takes a line, with every line that is not blank taken
\* for a payload line
LineKind_lenient(line) ==
    IF line = <<>> THEN "blank" ELSE "data"

\* how the loop body takes a line
LineKind(line) ==
    IF line = <<>> THEN "blank"
    ELSE IF StartsWithData(line) THEN "data"
    ELSE "bad"

\* a blank line closes a block, whatever the buffer holds
ClosesBlock_always(buf) == TRUE

\* a blank line closes a block when bufferedLines is not empty
ClosesBlock(buf) == Len(buf) # 0

\* bufferedLines.push(fragment), keeping the last fragment only
PushFragment_replace(buf, frag) == <<frag>>

\* bufferedLines.push(fragment)
PushFragment(buf, frag) == Append(buf, frag)

\* the buffer after a yield, left as it was
BufferAfterYield_kept(buf) == buf

\* bufferedLines = [] after the yield
BufferAfterYield(buf) == <<>>

\* the messages of a generator that flushes its buffer when the stream ends
MessagesAtEnd_flushed(buf) ==
    IF buf # <<>> /\ JSONParse(JoinLines(buf)).ok
      THEN <<JSONParse(JoinLines(buf)).val>>
      ELSE <<>>

\* the messages produced when the line stream ends: the loop is left and the
\* generator returns
MessagesAtEnd(buf) == <<>>

\* the states in which next() runs the generator's body, for a generator
\* that starts over when asked after its end
Resumable_restart == {"gen_start", "gen_suspended", "gen_done"}

\* the states in which next() runs the generator's body: not yet started, or
\* suspended at its yield
Resumable == {"gen_start", "gen_suspended"}

\* the consumer asks for the next message: the generator starts, or resumes
\* after its yield, and waits for a line
Pull ==
    /\ gpc \in Resumable
    /\ gpc' = "gen_wait_line"
    /\ pulled' = TRUE
    /\ bufferedLines' = IF gpc = "gen_suspended"
                          THEN BufferAfterYield(bufferedLines)
                          ELSE <<>>
    /\ UNCHANGED <<hasLogger, aborted, logs>>
    /\ UNCHANGED callVars
    /\ UNCHANGED <<chunk, yielded, gerr, delivered, streamState,
                   fragsAccepted, fragsEmitted>>
    /\ UNCHANGED otherVars

\* the generator ends with the error e
Throw(e) ==
    /\ gpc' = "gen_done"
    /\ gerr' = e
    /\ UNCHANGED <<bufferedLines, chunk, fragsAccepted>>

\* the response delivers a line: one turn of the loop
ReadLine(line) ==
    /\ gpc = "gen_wait_line"
    /\ streamState = "open"
    /\ Len(delivered) < MaxLines
    /\ delivered' = Append(delivered, line)
    /\ CASE LineKind(line) = "blank" /\ ~ClosesBlock(bufferedLines) ->
              UNCHANGED <<gpc, bufferedLines, chunk, gerr, fragsAccepted, logs>>
         [] LineKind(line) = "blank" /\ ClosesBlock(bufferedLines) ->
              LET parsed == JSONParse(JoinLines(bufferedLines)) IN
              IF ~parsed.ok
                THEN Throw(SyntaxError) /\ UNCHANGED logs
                ELSE \E lr \in LogCall(logs,
                           LogEntry("model_response", op, FALSE,
                                    [conv |-> "none", req |-> "none"],
                                    parsed.val)) :
                        /\ logs' = lr.logs
                        /\ IF lr.threw
                             THEN Throw(LoggerError)
                             ELSE /\ gpc' = "gen_yield"
                                  /\ chunk' = parsed.val
                                  /\ UNCHANGED <<bufferedLines, gerr, fragsAccepted>>
         [] LineKind(line) = "data" ->
              /\ bufferedLines' = PushFragment(bufferedLines, Fragment(line))
              /\ fragsAccepted' = Append(fragsAccepted, Fragment(line))
              /\ UNCHANGED <<gpc, chunk, gerr, logs>>
         [] LineKind(line) = "bad" ->
              Throw(FormatError(line)) /\ UNCHANGED logs
    /\ UNCHANGED <<hasLogger, aborted>>
    /\ UNCHANGED callVars
    /\ UNCHANGED <<yielded, streamState, fragsEmitted>>
    /\ UNCHANGED pulled
    /\ UNCHANGED otherVars

\* yield chunk: the message goes to the consumer and the generator is suspended
Yield ==
    /\ gpc = "gen_yield"
    /\ ContinuesAfterLog(logs)
    /\ gpc' = "gen_suspended"
    /\ yielded' = Append(yielded, chunk)
    /\ fragsEmitted' = fragsEmitted \o bufferedLines
    /\ UNCHANGED <<hasLogger, aborted, logs>>
    /\ UNCHANGED callVars
    /\ UNCHANGED <<bufferedLines, chunk, gerr, delivered, streamState, fragsAccepted>>
    /\ UNCHANGED pulled
    /\ UNCHANGED otherVars

\* the line stream ends: the loop is left and the generator returns
StreamEnd ==
    /\ gpc = "gen_wait_line"
    /\ streamState = "open"
    /\ streamState' = "end"
    /\ gpc' = "gen_done"
    /\ yielded' = yielded \o MessagesAtEnd(bufferedLines)
    /\ UNCHANGED <<hasLogger, aborted, logs>>
    /\ UNCHANGED callVars
    /\ UNCHANGED <<bufferedLines, chunk, gerr, delivered, fragsAccepted, fragsEmitted>>
    /\ UNCHANGED pulled
    /\ UNCHANGED otherVars

\* the caller fires the AbortSignal it gave to the call, between two turns of
\* the event loop
Abort ==
    /\ sig
    /\ ~aborted
    /\ \/ pc = "await_transport"
       \/ gpc \in {"gen_start", "gen_wait_line", "gen_suspended"}
    /\ aborted' = TRUE
    /\ UNCHANGED <<hasLogger, logs>>
    /\ UNCHANGED callVars
    /\ UNCHANGED genVars
    /\ UNCHANGED otherVars

\* the transport honours the fired signal by failing the response stream: the
\* generator, waiting for a line, ends with that error.  (A transport that
\* ends the stream instead is StreamEnd; one that goes on delivering what it
\* has received is ReadLine.)
StreamAbort ==
    /\ aborted
    /\ gpc = "gen_wait_line"
    /\ streamState = "open"
    /\ streamState' = "error"
    /\ gpc' = "gen_done"
    /\ gerr' = AbortError
    /\ UNCHANGED <<hasLogger, aborted, logs>>
    /\ UNCHANGED callVars
    /\ UNCHANGED <<bufferedLines, chunk, yielded, delivered, fragsAccepted, fragsEmitted>>
    /\ UNCHANGED pulled
    /\ UNCHANGED otherVars

\* the consumer closes the sequence (return()) while the generator is
\* suspended: the generator ends without running further
ConsumerReturn ==
    /\ gpc \in {"gen_start", "gen_suspended"}
    /\ gpc' = "gen_done"
    /\ UNCHANGED <<hasLogger, aborted, logs>>
    /\ UNCHANGED callVars
    /\ UNCHANGED <<bufferedLines, chunk, yielded, gerr, delivered, streamState,
                   fragsAccepted, fragsEmitted>>
    /\ UNCHANGED pulled
    /\ UNCHANGED otherVars

----------------------------------------------------------------------------
(* A second call: the steps of the first, on the second call's state *)

\* the second call: the operation ends with the error e of requestPost, requestGet or
\* requestStreamingPost: loadCodeAssist's catch, or the error goes to the caller
Fail2(o, e) ==
    /\ pc2' = AfterFailure(o, e)
    /\ IF Recovers(o, e)
         THEN /\ outcome2' = "returned"
              /\ retVal2' = [conv |-> "none", val |-> StandardTier]
              /\ raisedErr2' = raisedErr2
         ELSE /\ outcome2' = "raised"
              /\ raisedErr2' = e
              /\ retVal2' = retVal2

\* the second call: an operation is called: getMethodUrl, then the request is logged
Invoke2(o, r) ==
    /\ pc2 = "idle"
    /\ op2' = o
    /\ req2' = IF o \in UnaryGetOps THEN "none" ELSE r
    /\ sig2' = (o \in SignalOps)
    /\ \E lr \in LogCallOf(hasLogger2, logs2,
                   LogEntry("model_request", o, o \in StreamOps,
                            WireBody(o, r), NoVal)) :
          /\ logs2' = lr.logs
          /\ IF lr.threw
               THEN Fail2(o, LoggerError)
               ELSE /\ pc2' = "sending"
                    /\ UNCHANGED <<outcome2, retVal2, raisedErr2>>
    /\ UNCHANGED <<hasLogger2, aborted2, transportCalls2, tres2>>
    /\ UNCHANGED genVars2
    /\ UNCHANGED <<firstVars, donePulls, urlVars, extraVars>>

\* the second call: client.request is invoked and awaited
Send2 ==
    /\ pc2 = "sending"
    /\ ContinuesAfterLog(logs2)
    /\ pc2' = "await_transport"
    /\ transportCalls2' = transportCalls2 + 1
    /\ UNCHANGED <<hasLogger2, op2, req2, sig2, aborted2, tres2, outcome2, retVal2,
                   raisedErr2, logs2>>
    /\ UNCHANGED genVars2
    /\ UNCHANGED <<firstVars, donePulls, urlVars, extraVars>>

\* the second call: client.request rejects with e: the error leaves requestPost, requestGet or
\* requestStreamingPost as it is
TransportReject2(e) ==
    /\ pc2 = "await_transport"
    /\ tres2' = [status |-> "rejected", body |-> NoVal, err |-> e]
    /\ Fail2(op2, e)
    /\ UNCHANGED <<hasLogger2, op2, req2, sig2, aborted2, transportCalls2, logs2>>
    /\ UNCHANGED genVars2
    /\ UNCHANGED <<firstVars, donePulls, urlVars, extraVars>>

\* the second call: client.request of a unary call resolves with the body b: the response is logged
TransportResolveUnary2(b) ==
    /\ pc2 = "await_transport"
    /\ op2 \notin StreamOps
    /\ tres2' = [status |-> "resolved", body |-> b, err |-> NoError]
    /\ \E lr \in LogCallOf(hasLogger2, logs2,
                   LogEntry("model_response", op2, FALSE,
                            [conv |-> "none", req |-> "none"], b)) :
          /\ logs2' = lr.logs
          /\ IF lr.threw
               THEN Fail2(op2, LoggerError)
               ELSE /\ pc2' = "returning"
                    /\ UNCHANGED <<outcome2, retVal2, raisedErr2>>
    /\ UNCHANGED <<hasLogger2, op2, req2, sig2, aborted2, transportCalls2>>
    /\ UNCHANGED genVars2
    /\ UNCHANGED <<firstVars, donePulls, urlVars, extraVars>>

\* the second call: return res.data, through the operation's converter
Return2 ==
    /\ pc2 = "returning"
    /\ ContinuesAfterLog(logs2)
    /\ pc2' = "done"
    /\ outcome2' = "returned"
    /\ retVal2' = Converted(op2, tres2.body)
    /\ UNCHANGED <<hasLogger2, op2, req2, sig2, aborted2, transportCalls2, tres2,
                   raisedErr2, logs2>>
    /\ UNCHANGED genVars2
    /\ UNCHANGED <<firstVars, donePulls, urlVars, extraVars>>

\* the second call: client.request of the streaming call resolves with a response stream:
\* requestStreamingPost returns the generator, not yet started
TransportResolveStream2 ==
    /\ pc2 = "await_transport"
    /\ op2 \in StreamOps
    /\ tres2' = [status |-> "resolved", body |-> NoVal, err |-> NoError]
    /\ pc2' = "done"
    /\ outcome2' = "sequence"
    /\ gpc2' = InitialGenState
    /\ UNCHANGED <<hasLogger2, op2, req2, sig2, aborted2, transportCalls2, retVal2,
                   raisedErr2, logs2>>
    /\ UNCHANGED <<bufferedLines2, chunk2, yielded2, gerr2, delivered2, streamState2,
                   fragsAccepted2, fragsEmitted2, pulled2>>
    /\ UNCHANGED <<firstVars, donePulls, urlVars, extraVars>>

\* the second call: the consumer asks for the next message: the generator starts, or resumes
\* after its yield, and waits for a line
Pull2 ==
    /\ gpc2 \in Resumable
    /\ gpc2' = "gen_wait_line"
    /\ pulled2' = TRUE
    /\ bufferedLines2' = IF gpc2 = "gen_suspended"
                          THEN BufferAfterYield(bufferedLines2)
                          ELSE <<>>
    /\ UNCHANGED <<hasLogger2, aborted2, logs2>>
    /\ UNCHANGED callVars2
    /\ UNCHANGED <<chunk2, yielded2, gerr2, delivered2, streamState2,
                   fragsAccepted2, fragsEmitted2>>
    /\ UNCHANGED <<firstVars, donePulls, urlVars, extraVars>>

\* the second call: the generator ends with the error e
Throw2(e) ==
    /\ gpc2' = "gen_done"
    /\ gerr2' = e
    /\ UNCHANGED <<bufferedLines2, chunk2, fragsAccepted2>>

\* the buffer a generator works on, were bufferedLines one array for all calls
OwnBuffer_shared(own, other) == other

\* the buffer a generator works on: bufferedLines is declared in the
\* generator's body, so each call has its own
OwnBuffer(own, other) == own

\* the second call: the response delivers a line: one turn of the loop
ReadLine2(line) ==
    /\ gpc2 = "gen_wait_line"
    /\ streamState2 = "open"
    /\ Len(delivered2) < MaxLines
    /\ delivered2' = Append(delivered2, line)
    /\ CASE LineKind(line) = "blank" /\ ~ClosesBlock(OwnBuffer(bufferedLines2, bufferedLines)) ->
              UNCHANGED <<gpc2, bufferedLines2, chunk2, gerr2, fragsAccepted2, logs2>>
         [] LineKind(line) = "blank" /\ ClosesBlock(OwnBuffer(bufferedLines2, bufferedLines)) ->
              LET parsed == JSONParse(JoinLines(OwnBuffer(bufferedLines2, bufferedLines))) IN
              IF ~parsed.ok
                THEN Throw2(SyntaxError) /\ UNCHANGED logs2
                ELSE \E lr \in LogCallOf(hasLogger2, logs2,
                           LogEntry("model_response", op2, FALSE,
                                    [conv |-> "none", req |-> "none"],
                                    parsed.val)) :
                        /\ logs2' = lr.logs
                        /\ IF lr.threw
                             THEN Throw2(LoggerError)
                             ELSE /\ gpc2' = "gen_yield"
                                  /\ chunk2' = parsed.val
                                  /\ UNCHANGED <<bufferedLines2, gerr2, fragsAccepted2>>
         [] LineKind(line) = "data" ->
              /\ bufferedLines2' = PushFragment(OwnBuffer(bufferedLines2, bufferedLines),
                                            Fragment(line))
              /\ fragsAccepted2' = Append(fragsAccepted2, Fragment(line))
              /\ UNCHANGED <<gpc2, chunk2, gerr2, logs2>>
         [] LineKind(line) = "bad" ->
              Throw2(FormatError(line)) /\ UNCHANGED logs2
    /\ UNCHANGED <<hasLogger2, aborted2>>
    /\ UNCHANGED callVars2
    /\ UNCHANGED <<yielded2, streamState2, fragsEmitted2>>
    /\ UNCHANGED pulled2
    /\ UNCHANGED <<firstVars, donePulls, urlVars, extraVars>>

\* the second call: yield chunk: the message goes to the consumer and the generator is suspended
Yield2 ==
    /\ gpc2 = "gen_yield"
    /\ ContinuesAfterLog(logs2)
    /\ gpc2' = "gen_suspended"
    /\ yielded2' = Append(yielded2, chunk2)
    /\ fragsEmitted2' = fragsEmitted2 \o bufferedLines2
    /\ UNCHANGED <<hasLogger2, aborted2, logs2>>
    /\ UNCHANGED callVars2
    /\ UNCHANGED <<bufferedLines2, chunk2, gerr2, delivered2, streamState2, fragsAccepted2>>
    /\ UNCHANGED pulled2
    /\ UNCHANGED <<firstVars, donePulls, urlVars, extraVars>>

\* the second call: the line stream ends: the loop is left and the generator returns
StreamEnd2 ==
    /\ gpc2 = "gen_wait_line"
    /\ streamState2 = "open"
    /\ streamState2' = "end"
    /\ gpc2' = "gen_done"
    /\ yielded2' = yielded2 \o MessagesAtEnd(bufferedLines2)
    /\ UNCHANGED <<hasLogger2, aborted2, logs2>>
    /\ UNCHANGED callVars2
    /\ UNCHANGED <<bufferedLines2, chunk2, gerr2, delivered2, fragsAccepted2, fragsEmitted2>>
    /\ UNCHANGED pulled2
    /\ UNCHANGED <<firstVars, donePulls, urlVars, extraVars>>

\* the second call: the caller fires the AbortSignal it gave to the call, between two turns of
\* the event loop
Abort2 ==
    /\ sig2
    /\ ~aborted2
    /\ \/ pc2 = "await_transport"
       \/ gpc2 \in {"gen_start", "gen_wait_line", "gen_suspended"}
    /\ aborted2' = TRUE
    /\ UNCHANGED <<hasLogger2, logs2>>
    /\ UNCHANGED callVars2
    /\ UNCHANGED genVars2
    /\ UNCHANGED <<firstVars, donePulls, urlVars, extraVars>>

\* the second call: the transport honours the fired signal by failing the response stream: the
\* generator, waiting for a line, ends with that error.  (A transport that
\* ends the stream instead is StreamEnd; one that goes on delivering what it
\* has received is ReadLine.)
StreamAbort2 ==
    /\ aborted2
    /\ gpc2 = "gen_wait_line"
    /\ streamState2 = "open"
    /\ streamState2' = "error"
    /\ gpc2' = "gen_done"
    /\ gerr2' = AbortError
    /\ UNCHANGED <<hasLogger2, aborted2, logs2>>
    /\ UNCHANGED callVars2
    /\ UNCHANGED <<bufferedLines2, chunk2, yielded2, delivered2, fragsAccepted2, fragsEmitted2>>
    /\ UNCHANGED pulled2
    /\ UNCHANGED <<firstVars, donePulls, urlVars, extraVars>>

\* the second call: the consumer closes the sequence (return()) while the generator is
\* suspended: the generator ends without running further
ConsumerReturn2 ==
    /\ gpc2 \in {"gen_start", "gen_suspended"}
    /\ gpc2' = "gen_done"
    /\ UNCHANGED <<hasLogger2, aborted2, logs2>>
    /\ UNCHANGED callVars2
    /\ UNCHANGED <<bufferedLines2, chunk2, yielded2, gerr2, delivered2, streamState2,
                   fragsAccepted2, fragsEmitted2>>
    /\ UNCHANGED pulled2
    /\ UNCHANGED <<firstVars, donePulls, urlVars, extraVars>>

----------------------------------------------------------------------------
(* Steps outside one call *)

\* the consumer asks a generator that has ended (by the end of the stream, an
\* error or return()): next() answers {done: true} and the body does not run
PullDone ==
    /\ gpc = "gen_done"
    /\ donePulls < MaxDonePulls
    /\ donePulls' = donePulls + 1
    /\ pulled' = TRUE
    /\ UNCHANGED <<hasLogger, aborted, logs>>
    /\ UNCHANGED callVars
    /\ UNCHANGED <<gpc, bufferedLines, chunk, yielded, gerr, delivered, streamState,
                   fragsAccepted, fragsEmitted>>
    /\ UNCHANGED <<urlVars, secondVars, extraVars>>

\* the environment sets, changes or unsets CODE_ASSIST_ENDPOINT
SetEnv(e) ==
    /\ env # e
    /\ env' = e
    /\ UNCHANGED <<hasLogger, aborted, logs, donePulls, urlCalls>>
    /\ UNCHANGED callVars
    /\ UNCHANGED genVars
    /\ UNCHANGED <<secondVars, extraVars>>

\* getMethodUrl(m) is called and returns
GetMethodUrlCall(m) ==
    /\ Len(urlCalls) < MaxUrlCalls
    /\ urlCalls' = Append(urlCalls,
                          [method |-> m, env |-> env, url |-> getMethodUrl(env, m)])
    /\ UNCHANGED <<hasLogger, aborted, logs, donePulls, env>>
    /\ UNCHANGED callVars
    /\ UNCHANGED genVars
    /\ UNCHANGED <<secondVars, extraVars>>

----------------------------------------------------------------------------
(* The generator returned by generateContentStream: for await (const resp  *)
(* of resps) yield fromGenerateContentResponse(resp).  Its consumer's      *)
(* next() and return() reach the generator of requestStreamingPost         *)
(* through it, so Pull and ConsumerReturn are then this consumer's.        *)

\* fromGenerateContentResponse(resp): the converter, applied to one message
fromGenerateContentResponse(resp) ==
    [conv |-> "fromGenerateContentResponse", val |-> resp]

\* the results after a loop body that yields resp as it is
OuterResults_raw(rs, resp) == Append(rs, resp)

\* the results after the loop body: yield fromGenerateContentResponse(resp)
OuterResults(rs, resp) == Append(rs, fromGenerateContentResponse(resp))

\* the outer generator holds no message it has not yet yielded
Forwarded == Len(results) = Len(yielded)

\* requestStreamingPost has resolved: generateContentStream returns its generator
OuterCreate ==
    /\ op = "generateContentStream"
    /\ outcome = "sequence"
    /\ opc = "none"
    /\ opc' = "open"
    /\ UNCHANGED <<results, oerr>>
    /\ UNCHANGED <<firstVars, secondVars, donePulls, urlVars, slVars, hdrVars>>

\* resps has handed over a message: the loop body converts and yields it
OuterYield ==
    /\ opc = "open"
    /\ ~Forwarded
    /\ results' = OuterResults(results, yielded[Len(results) + 1])
    /\ UNCHANGED <<opc, oerr>>
    /\ UNCHANGED <<firstVars, secondVars, donePulls, urlVars, slVars, hdrVars>>

\* resps has ended: the loop is left, or its error leaves the generator
OuterEnd ==
    /\ opc = "open"
    /\ gpc = "gen_done"
    /\ Forwarded
    /\ opc' = "done"
    /\ oerr' = gerr
    /\ UNCHANGED results
    /\ UNCHANGED <<firstVars, secondVars, donePulls, urlVars, slVars, hdrVars>>

----------------------------------------------------------------------------
(* SessionLogger (core/session-logger.ts).  An initialize call that does   *)
(* not return at once is suspended at await fs.mkdir; a log call that does *)
(* not return at once is suspended at await fs.appendFile.  Calls are not  *)
(* serialised: any number can be suspended at a time, and the file system  *)
(* settles them in any order.                                              *)

\* the successful initialize calls so far
Successes == Cardinality({i \in 1..Len(initCalls) : initCalls[i].did = "ok"})

\* initialize() is called: it returns at once when initialized, else sets
\* logFilePath and calls fs.mkdir
InitializeCall ==
    /\ Len(initCalls) < MaxInitCalls
    /\ IF initialized
         THEN /\ initCalls' = Append(initCalls,
                    [st |-> "resolved", did |-> "nothing", succBefore |-> Successes])
              /\ UNCHANGED <<logFilePath, mkdirs>>
         ELSE /\ initCalls' = Append(initCalls,
                    [st |-> "mkdir", did |-> "nothing", succBefore |-> Successes])
              /\ logFilePath' = TRUE
              /\ mkdirs' = mkdirs + 1
    /\ UNCHANGED <<initialized, logCalls, file, diag>>
    /\ UNCHANGED <<firstVars, secondVars, donePulls, urlVars, wrapVars, hdrVars>>

\* fs.mkdir of the initialize call i resolves: initialized = true
MkdirResolve(i) ==
    /\ initCalls[i].st = "mkdir"
    /\ initialized' = TRUE
    /\ initCalls' = [initCalls EXCEPT ![i] = [@ EXCEPT !.st = "resolved", !.did = "ok"]]
    /\ UNCHANGED <<logFilePath, logCalls, file, diag, mkdirs>>
    /\ UNCHANGED <<firstVars, secondVars, donePulls, urlVars, wrapVars, hdrVars>>

\* fs.mkdir of the initialize call i rejects: the catch clause reports it and
\* sets initialized = false
MkdirReject(i) ==
    /\ initCalls[i].st = "mkdir"
    /\ initialized' = FALSE
    /\ diag' = Append(diag, [out |-> "error", of |-> "initialize", call |-> i])
    /\ initCalls' = [initCalls EXCEPT ![i] = [@ EXCEPT !.st = "resolved", !.did = "failed"]]
    /\ UNCHANGED <<logFilePath, logCalls, file, mkdirs>>
    /\ UNCHANGED <<firstVars, secondVars, donePulls, urlVars, wrapVars, hdrVars>>

\* the guard of log, with the test of initialized left out
Writes_pathOnly(init, path) == path

\* the guard of log: it goes on to write unless !initialized || !logFilePath
Writes(init, path) == init /\ path

\* log(type, data) is called: it returns at once when the guard fails, else
\* builds the entry and calls fs.appendFile
SessionLog(type) ==
    /\ Len(logCalls) < MaxLogCalls
    /\ logCalls' = Append(logCalls,
          [st |-> IF Writes(initialized, logFilePath) THEN "append" ELSE "resolved",
           wrote |-> "no", type |-> type, succBefore |-> Successes])
    /\ UNCHANGED <<initialized, logFilePath, initCalls, file, diag, mkdirs>>
    /\ UNCHANGED <<firstVars, secondVars, donePulls, urlVars, wrapVars, hdrVars>>

\* fs.appendFile of the log call j resolves: its entry is at the end of the file
AppendResolve(j) ==
    /\ logCalls[j].st = "append"
    /\ file' = Append(file, [call |-> j, type |-> logCalls[j].type])
    /\ logCalls' = [logCalls EXCEPT ![j] = [@ EXCEPT !.st = "resolved", !.wrote = "yes"]]
    /\ UNCHANGED <<initialized, logFilePath, initCalls, diag, mkdirs>>
    /\ UNCHANGED <<firstVars, secondVars, donePulls, urlVars, wrapVars, hdrVars>>

\* how a log call ends when fs.appendFile rejects, with no catch clause
AfterAppendFailure_rethrown == "rejected"

\* how a log call ends when fs.appendFile rejects: the catch clause reports
\* the error and log returns
AfterAppendFailure == "resolved"

\* fs.appendFile of the log call j rejects
AppendReject(j) ==
    /\ logCalls[j].st = "append"
    /\ diag' = Append(diag, [out |-> "debug", of |-> "log", call |-> j])
    /\ logCalls' = [logCalls EXCEPT ![j] =
                       [@ EXCEPT !.st = AfterAppendFailure, !.wrote = "failed"]]
    /\ UNCHANGED <<initialized, logFilePath, initCalls, file, mkdirs>>
    /\ UNCHANGED <<firstVars, secondVars, donePulls, urlVars, wrapVars, hdrVars>>

----------------------------------------------------------------------------
(* Specifications *)

Next ==
    \/ \E o \in Ops, r \in Requests : Invoke(o, r)
    \/ Send
    \/ \E e \in TransportErrors : TransportReject(e)
    \/ \E b \in Bodies : TransportResolveUnary(b)
    \/ Return
    \/ TransportResolveStream
    \/ \E i \in 1..Len(logs), st \in {"resolved", "rejected"} : LogSettle(i, st)
    \/ Pull
    \/ \E line \in Lines : ReadLine(line)
    \/ Yield
    \/ StreamEnd
    \/ Abort
    \/ StreamAbort
    \/ ConsumerReturn

Spec == Init /\ [][Next]_vars

\* the steps of the call itself, of the transport and of a consumer that keeps
\* asking; the logger's promises and the caller's signal are under no obligation
Progress ==
    \/ \E o \in Ops, r \in Requests : Invoke(o, r)
    \/ Send
    \/ \E e \in TransportErrors : TransportReject(e)
    \/ \E b \in Bodies : TransportResolveUnary(b)
    \/ Return
    \/ TransportResolveStream
    \/ Pull
    \/ \E line \in Lines : ReadLine(line)
    \/ Yield
    \/ StreamEnd

FairSpec == Spec /\ WF_vars(Progress)

\* the call with a consumer that goes on asking after the end of the sequence
RepullNext == Next \/ PullDone

RepullSpec == Init /\ [][RepullNext]_vars

\* a generateContentStream call with the consumer of its generator
WrapNext ==
    \/ \E r \in Requests : Invoke("generateContentStream", r)
    \/ Send
    \/ \E e \in TransportErrors : TransportReject(e)
    \/ TransportResolveStream
    \/ OuterCreate
    \/ opc = "open" /\ Forwarded /\ Pull
    \/ \E line \in Lines : ReadLine(line)
    \/ Yield
    \/ OuterYield
    \/ StreamEnd
    \/ Abort
    \/ StreamAbort
    \/ opc = "open" /\ Forwarded /\ ConsumerReturn
    \/ OuterEnd

WrapSpec == Init /\ [][WrapNext]_vars

\* a SessionLogger and its callers
LoggerNext ==
    \/ InitializeCall
    \/ \E i \in 1..Len(initCalls) : MkdirResolve(i)
    \/ \E i \in 1..Len(initCalls) : MkdirReject(i)
    \/ \E type \in {"model_request", "model_response"} : SessionLog(type)
    \/ \E j \in 1..Len(logCalls) : AppendResolve(j)
    \/ \E j \in 1..Len(logCalls) : AppendReject(j)

LoggerSpec == Init /\ [][LoggerNext]_vars

\* servers constructed with any httpOptions.headers, and their requests
HeaderInit ==
    /\ InitFirst
    /\ InitSecond
    /\ hasLogger2 = hasLogger
    /\ httpHeaders \in CallerHeaders

HeaderNext == \E kind \in {"GET", "POST", "POST-sse"} : HandRequest(kind)

HeaderSpec == HeaderInit /\ [][HeaderNext]_vars

\* getMethodUrl under a changing environment
UrlNext ==
    \/ \E e \in EnvValues : SetEnv(e)
    \/ \E m \in MethodNames : GetMethodUrlCall(m)

UrlSpec == Init /\ [][UrlNext]_vars

\* two dispatchers, the first with a sessionLogger and the second without
PairInit ==
    /\ InitFirst
    /\ InitSecond
    /\ hasLogger
    /\ hasLogger2 = FALSE
    /\ httpHeaders = NoHeaders

\* the logger of the first dispatcher is well behaved: no log call throws
WellBehaved == \A i \in 1..Len(logs) : logs[i].status # "threw"

\* the two calls stand at the same place with the same results
Same ==
    /\ <<pc2, op2, req2, sig2, aborted2>> = <<pc, op, req, sig, aborted>>
    /\ transportCalls2 = transportCalls
    /\ <<outcome2, retVal2, raisedErr2>> = <<outcome, retVal, raisedErr>>
    /\ <<gpc2, yielded2, gerr2>> = <<gpc, yielded, gerr>>
    /\ Len(delivered2) = Len(delivered)
    /\ streamState2 = streamState

\* the second dispatcher is given what the first was given in its last step:
\* the same call, the same settling of client.request, the same line or end
\* of the response, the same abort, the same pull or return() of the consumer
Follow ==
    \/ pc # "idle" /\ Invoke2(op, req)
    \/ transportCalls > transportCalls2 /\ Send2
    \/ tres.status = "rejected" /\ TransportReject2(tres.err)
    \/ tres.status = "resolved" /\ TransportResolveUnary2(tres.body)
    \/ pc = "done" /\ Return2
    \/ tres.status = "resolved" /\ TransportResolveStream2
    \/ gpc = "gen_wait_line" /\ Pull2
    \/ /\ Len(delivered) > Len(delivered2)
       /\ ReadLine2(delivered[Len(delivered2) + 1])
    \/ Len(yielded) > Len(yielded2) /\ Yield2
    \/ streamState = "end" /\ StreamEnd2
    \/ aborted /\ Abort2
    \/ streamState = "error" /\ StreamAbort2
    \/ gpc = "gen_done" /\ ConsumerReturn2

\* the first dispatcher takes a step, then the second is given the same
PairNext ==
    \/ Same /\ Next /\ WellBehaved'
    \/ ~Same /\ Follow

PairSpec == PairInit /\ [][PairNext]_vars

\* the lines the responses of two concurrent streaming calls deliver
StreamLines == {Blank, DataOne, DataOpen, DataClose, Oops}

\* no log call of either call throws
NoLogThrows ==
    /\ \A i \in 1..Len(logs) : logs[i].status # "threw"
    /\ \A i \in 1..Len(logs2) : logs2[i].status # "threw"

\* two streaming calls to one server, their steps interleaved in any order
TwoStreamNext ==
    \/ \E o \in StreamOps : Invoke(o, "r1") /\ NoLogThrows'
    \/ Send
    \/ TransportResolveStream
    \/ Pull
    \/ /\ Len(delivered) < MaxStreamLines
       /\ \E line \in StreamLines : ReadLine(line) /\ NoLogThrows'
    \/ Yield
    \/ StreamEnd
    \/ ConsumerReturn
    \/ \E o \in StreamOps : Invoke2(o, "r2") /\ NoLogThrows'
    \/ Send2
    \/ TransportResolveStream2
    \/ Pull2
    \/ /\ Len(delivered2) < MaxStreamLines
       /\ \E line \in StreamLines : ReadLine2(line) /\ NoLogThrows'
    \/ Yield2
    \/ StreamEnd2
    \/ ConsumerReturn2

TwoStreamSpec == Init /\ [][TwoStreamNext]_vars

----------------------------------------------------------------------------
(* Reference definitions for the properties: the blocks of a line stream,  *)
(* read off the whole stream rather than line by line.                     *)

Last(s) == s[Len(s)]

\* the blocks of payload lines that a blank line closes, in stream order
RECURSIVE ClosedBlocks(_, _)
ClosedBlocks(lines, cur) ==
    IF lines = <<>> THEN <<>>
    ELSE IF Head(lines) = <<>>
      THEN (IF cur = <<>> THEN <<>> ELSE <<cur>>) \o ClosedBlocks(Tail(lines), <<>>)
      ELSE ClosedBlocks(Tail(lines), Append(cur, Head(lines)))

\* the payload lines after the last blank line
RECURSIVE OpenBlock(_)
OpenBlock(lines) ==
    IF lines = <<>> \/ Last(lines) = <<>> THEN <<>>
    ELSE Append(OpenBlock(SubSeq(lines, 1, Len(lines) - 1)), Last(lines))

\* a payload line without its six-character prefix, trimmed
Payload(line) == Trim(SubSeq(line, 7, Len(line)))

PayloadsOf(block) == [i \in 1..Len(block) |-> Payload(block[i])]

\* the payloads of a block as one text, a newline between two payloads
RECURSIVE BlockText(_)
BlockText(block) ==
    IF block = <<>> THEN <<>>
    ELSE IF Len(block) = 1 THEN Payload(block[1])
    ELSE BlockText(SubSeq(block, 1, Len(block) - 1)) \o <<"\n">> \o Payload(Last(block))

ExpectedMessages(lines) ==
    LET blocks == ClosedBlocks(lines, <<>>) IN
    [i \in 1..Len(blocks) |-> JSONParse(BlockText(blocks[i])).val]

\* a line that is neither blank nor a payload line
IsViolation(line) ==
    /\ line # <<>>
    /\ ~(Len(line) >= 6 /\ SubSeq(line, 1, 6) = <<"d", "a", "t", "a", ":", " ">>)

\* the error's response payload has an error.details list with an entry whose
\* reason is SECURITY_POLICY_VIOLATED
HasViolationReason(e) ==
    /\ e.payload = "error"
    /\ e.detailsKind = "array"
    /\ "SECURITY_POLICY_VIOLATED" \in {e.details[i] : i \in 1..Len(e.details)}

----------------------------------------------------------------------------
(* Properties *)

\* C1: when the generator has read the line stream to its end and raised no
\* error, the messages it yielded are, in order, the JSON values of the
\* blocks a blank line closed (payloads trimmed and joined with newlines),
\* one per block with at least one payload line, and nothing else.
C1_OneMessagePerBlock ==
    (gpc = "gen_done" /\ streamState = "end" /\ gerr = NoError)
        => yielded = ExpectedMessages(delivered)

C1_Witness ==
    /\ gpc = "gen_done"
    /\ streamState = "end"
    /\ gerr = NoError
    /\ delivered = <<DataOpen, DataClose, Blank, Blank>>
    /\ yielded = <<EmptyObj>>

\* C2 (as claimed): once the cancellation signal has fired and while the
\* line stream has not ended, no further message is yielded.
C2_NoMessageAfterCancel ==
    [][(aborted /\ streamState = "open") => yielded' = yielded]_vars

\* C3: a line that is neither blank nor a payload line ends the generator
\* with the error that carries the line, without a message and without a log
\* call; after that error nothing more is read, yielded or emitted.
C3_ProtocolViolation ==
    [][/\ (delivered' # delivered /\ IsViolation(Last(delivered')))
            => /\ gerr' = FormatError(Last(delivered'))
               /\ gpc' = "gen_done"
               /\ yielded' = yielded
               /\ fragsEmitted' = fragsEmitted
               /\ Len(logs') = Len(logs)
       /\ (gerr.src = "format")
            => /\ gerr' = gerr
               /\ gpc' = "gen_done"
               /\ yielded' = yielded
               /\ fragsEmitted' = fragsEmitted
               /\ delivered' = delivered
               /\ Len(logs') = Len(logs)]_vars

C3_Witness ==
    /\ gerr = FormatError(Oops)
    /\ gpc = "gen_done"
    /\ bufferedLines # <<>>
    /\ Len(yielded) = 1

\* C4 (as claimed): when the generator has ended, every fragment it accepted
\* is part of a message it yielded, or it ended with an error.
C4_NeverDropped ==
    gpc = "gen_done" => (fragsEmitted = fragsAccepted \/ gerr # NoError)

\* C4 (amended): when the generator has ended without an error, the
\* fragments it accepted are those of the messages it yielded, followed, when
\* the line stream ended, by those of the block no blank line closed: these
\* alone are dropped, and without an error.
C4_DroppedOnlyAtStreamEnd ==
    (gpc = "gen_done" /\ gerr = NoError)
        => fragsAccepted =
             fragsEmitted \o (IF streamState = "end"
                                THEN PayloadsOf(OpenBlock(delivered))
                                ELSE <<>>)

C4_Witness ==
    /\ gpc = "gen_done"
    /\ gerr = NoError
    /\ streamState = "end"
    /\ Len(yielded) = 1
    /\ fragsEmitted # <<>>
    /\ fragsAccepted # fragsEmitted

\* C5: when the line stream ends while fragments are pending, the generator
\* ends without an error, yields nothing for them and makes no log call.
C5_DiscardAtStreamEnd ==
    [][(streamState = "open" /\ streamState' = "end" /\ bufferedLines # <<>>)
          => /\ gpc' = "gen_done"
             /\ gerr' = NoError
             /\ yielded' = yielded
             /\ logs' = logs]_vars

C5_Witness ==
    /\ streamState = "end"
    /\ gpc = "gen_done"
    /\ bufferedLines = <<<<"{">>, <<"}">>>>
    /\ hasLogger
    /\ yielded = <<>>

\* C6: a blank line read while no fragment is pending yields nothing, raises
\* nothing, makes no log call and leaves the buffer empty and the generator
\* waiting for the next line.
C6_BlankIsNoOp ==
    [][(gpc = "gen_wait_line" /\ bufferedLines = <<>>
          /\ delivered' = Append(delivered, Blank))
          => /\ yielded' = yielded
             /\ gerr' = NoError
             /\ bufferedLines' = <<>>
             /\ gpc' = "gen_wait_line"
             /\ logs' = logs]_vars

C6_Witness ==
    /\ delivered = <<Blank, DataOne, Blank, Blank>>
    /\ gpc = "gen_wait_line"
    /\ bufferedLines = <<>>
    /\ gerr = NoError
    /\ yielded = <<Num(1)>>

\* C7: when the transport fails loadCodeAssist with an error whose details
\* list has an entry with reason SECURITY_POLICY_VIOLATED, loadCodeAssist
\* returns the standard tier and raises nothing.
C7_TierFallback ==
    (pc = "done" /\ op = "loadCodeAssist" /\ tres.status = "rejected"
       /\ HasViolationReason(tres.err))
        => /\ outcome = "returned"
           /\ retVal = [conv |-> "none", val |-> StandardTier]
           /\ raisedErr = NoError

C7_Witness ==
    /\ pc = "done"
    /\ op = "loadCodeAssist"
    /\ req = "r2"
    /\ tres.status = "rejected"
    /\ tres.err.details = <<"OTHER", "SECURITY_POLICY_VIOLATED">>
    /\ outcome = "returned"

\* C8: a transport failure is raised to the caller as the very error the
\* transport failed with, unless the operation is loadCodeAssist and the
\* error carries the reason SECURITY_POLICY_VIOLATED.
C8_FailurePropagates ==
    (pc = "done" /\ tres.status = "rejected"
       /\ ~(op = "loadCodeAssist" /\ HasViolationReason(tres.err)))
        => /\ outcome = "raised"
           /\ raisedErr = tres.err
           /\ retVal = NoRet
           /\ gpc = "none"

C8_Witness ==
    /\ pc = "done"
    /\ op = "generateContentStream"
    /\ tres.status = "rejected"
    /\ HasViolationReason(tres.err)
    /\ outcome = "raised"

\* C9 (as claimed): a failure of a log call is never raised to the caller of
\* an operation nor to the consumer of a stream.
C9_LoggerIsolation ==
    raisedErr.src # "logger" /\ gerr.src # "logger"

\* C10: the call goes on without waiting for the logger: even when no
\* promise of log ever settles, a unary call ends with its result and a
\* stream is read to its end.
C10_NoDelay ==
    <>(pc = "done" /\ gpc \in {"none", "gen_done"})

C10_Witness ==
    /\ pc = "done"
    /\ gpc = "gen_done"
    /\ streamState = "end"
    /\ Len(yielded) = 2
    /\ Len(logs) = 3
    /\ Pending(logs) = {1, 2, 3}

\* the log calls of one type, in the order they were made
RECURSIVE LogsOfType(_, _)
LogsOfType(lg, type) ==
    IF lg = <<>> THEN <<>>
    ELSE (IF Head(lg).type = type THEN <<Head(lg)>> ELSE <<>>)
           \o LogsOfType(Tail(lg), type)

\* C12 (as claimed): in a streaming call with a logger the response log
\* calls are those of the messages handed to the consumer, in order, and one
\* more while a message is being handed over.
C12_LogInterleavesWithYield ==
    (hasLogger /\ op \in StreamOps)
        => LET rs == LogsOfType(logs, "model_response") IN
           /\ Len(rs) = Len(yielded) + (IF gpc = "gen_yield" THEN 1 ELSE 0)
           /\ \A i \in 1..Len(yielded) : rs[i].response = yielded[i]

\* C13: the transport is invoked at most once per call, and exactly once in
\* a call whose transport failed, loadCodeAssist's default tier included.
C13_NoRetry ==
    /\ transportCalls <= 1
    /\ tres.status # "none" => transportCalls = 1

C13_Witness ==
    /\ pc = "done"
    /\ op = "loadCodeAssist"
    /\ tres.status = "rejected"
    /\ retVal.val = StandardTier
    /\ transportCalls = 1

\* C17: in a unary call with a logger the request is logged once, first and
\* before the transport is invoked; the response is logged once when the
\* transport has succeeded, before the result is returned, and never when
\* the transport has not succeeded.
C17_UnaryLogOrder ==
    (hasLogger /\ op \in UnaryPostOps \cup UnaryGetOps)
        => LET rq == LogsOfType(logs, "model_request")
               rs == LogsOfType(logs, "model_response") IN
           /\ Len(rq) = 1
           /\ logs[1].type = "model_request"
           /\ logs[1].http = (IF op \in UnaryGetOps THEN "GET" ELSE "POST")
           /\ transportCalls = 0 => pc \in {"sending", "done"}
           /\ Len(rs) = (IF tres.status = "resolved" THEN 1 ELSE 0)
           /\ tres.status = "resolved" => rs[1].response = tres.body

C17_Witness ==
    /\ hasLogger
    /\ op = "getCodeAssistGlobalUserSetting"
    /\ outcome = "returned"
    /\ retVal.val = EmptyObj
    /\ Len(logs) = 2

\* C18: while the generator waits for a line its buffer holds the fragments
\* of the block in flight and nothing else; a message is parsed and handed
\* over only after a blank line read with a non-empty buffer.
C18_TwoStateDecoder ==
    /\ gpc = "gen_wait_line" => bufferedLines = PayloadsOf(OpenBlock(delivered))
    /\ gpc \in {"gen_yield", "gen_suspended"}
         => /\ Last(delivered) = Blank
            /\ bufferedLines # <<>>
            /\ bufferedLines =
                 PayloadsOf(OpenBlock(SubSeq(delivered, 1, Len(delivered) - 1)))

C18_Witness ==
    /\ gpc = "gen_wait_line"
    /\ yielded = <<EmptyObj>>
    /\ delivered = <<DataOpen, DataClose, Blank, DataOne>>
    /\ bufferedLines = <<<<"1">>>>

\* C19: a blank line that closes a block whose joined payloads are not JSON
\* ends the generator with the parse error, without a message and without a
\* log call; after that error nothing more is read, yielded or logged.
C19_InvalidJsonEndsStream ==
    [][/\ (/\ gpc = "gen_wait_line"
           /\ delivered' = Append(delivered, Blank)
           /\ OpenBlock(delivered) # <<>>
           /\ ~JSONParse(BlockText(OpenBlock(delivered))).ok)
            => /\ gerr' = SyntaxError
               /\ gpc' = "gen_done"
               /\ yielded' = yielded
               /\ Len(logs') = Len(logs)
       /\ (gerr = SyntaxError)
            => /\ gerr' = gerr
               /\ gpc' = "gen_done"
               /\ yielded' = yielded
               /\ delivered' = delivered
               /\ Len(logs') = Len(logs)]_vars

C19_Witness ==
    /\ gerr = SyntaxError
    /\ delivered = <<DataOne, Blank, DataEmpty, Blank>>
    /\ yielded = <<Num(1)>>
    /\ hasLogger
    /\ Len(logs) = 2

\* C20: when requestStreamingPost has returned its sequence, the request has
\* been logged once (as a streaming request) and the transport invoked once;
\* a failed transport call gives an error and no sequence; until the
\* consumer's first pull no line is read and no response is logged.
C20_LazySequence ==
    /\ gpc # "none"
         => /\ transportCalls = 1
            /\ tres.status = "resolved"
            /\ outcome = "sequence"
            /\ hasLogger => /\ Len(LogsOfType(logs, "model_request")) = 1
                            /\ logs[1].type = "model_request"
                            /\ logs[1].sse
    /\ (op \in StreamOps /\ tres.status = "rejected")
         => (gpc = "none" /\ outcome = "raised" /\ raisedErr = tres.err)
    /\ (op \in StreamOps /\ ~pulled)
         => /\ delivered = <<>>
            /\ yielded = <<>>
            /\ LogsOfType(logs, "model_response") = <<>>

C20_Witness ==
    /\ gpc = "gen_start"
    /\ ~pulled
    /\ hasLogger
    /\ Len(logs) = 1
    /\ transportCalls = 1
    /\ outcome = "sequence"

\* C14: the sequence is forward-only and single-pass: a message is handed
\* over once, right after it was parsed, and never more messages than blocks
\* were closed; once the generator has ended it stays ended, and a later
\* pull is answered without a message, a line read or a log call.
C14_SinglePass ==
    [][/\ gpc = "gen_done"
            => /\ gpc' = "gen_done"
               /\ yielded' = yielded
               /\ gerr' = gerr
               /\ delivered' = delivered
               /\ Len(logs') = Len(logs)
       /\ yielded' # yielded
            => /\ gpc = "gen_yield"
               /\ gpc' = "gen_suspended"
               /\ yielded' = Append(yielded, chunk)
       /\ Len(yielded') <= Len(ClosedBlocks(delivered', <<>>))
       /\ donePulls' # donePulls => gpc = "gen_done"]_vars

C14_Witness ==
    /\ donePulls = 1
    /\ gpc = "gen_done"
    /\ gerr = NoError
    /\ streamState = "open"
    /\ yielded = <<Num(1)>>

\* the URL the contract gives for a method under an override
DefaultBase ==
    <<"h", "t", "t", "p", "s", ":", "/", "/", "c", "l", "o", "u", "d", "c", "o",
      "d", "e", "-", "p", "a", ".", "g", "o", "o", "g", "l", "e", "a", "p", "i",
      "s", ".", "c", "o", "m">>

VersionPart == <<"/", "v", "1", "i", "n", "t", "e", "r", "n", "a", "l", ":">>

ExpectedUrl(e, method) ==
    (IF e.set THEN e.value ELSE DefaultBase) \o VersionPart \o method

\* C16: every getMethodUrl(method) call returns '<endpoint>/v1internal:<method>'
\* with the override in effect at that call, taken verbatim, or the default
\* endpoint when the override is unset; a change of the override between two
\* calls shows in the later call only.
C16_MethodUrl ==
    /\ \A i \in 1..Len(urlCalls) :
          urlCalls[i].url = ExpectedUrl(urlCalls[i].env, urlCalls[i].method)
    /\ \A i, j \in 1..Len(urlCalls) :
          (urlCalls[i].method = urlCalls[j].method /\ urlCalls[i].env # urlCalls[j].env)
             => urlCalls[i].url # urlCalls[j].url

C16_Witness ==
    /\ Len(urlCalls) = 2
    /\ urlCalls[1].method = urlCalls[2].method
    /\ urlCalls[1].env = SetTo(<<>>)
    /\ urlCalls[2].env = Unset
    /\ urlCalls[1].url = VersionPart \o urlCalls[1].method
    /\ urlCalls[2].url = DefaultBase \o VersionPart \o urlCalls[2].method

\* C11: a dispatcher without a logger, given what a dispatcher with a
\* well-behaved logger was given, can always take the same step and is then
\* at the same place with the same transport request, the same result or
\* error and the same message sequence, for every operation.
C11_LoggerEquivalence ==
    /\ [](~Same => ENABLED Follow)
    /\ [][Follow => Same']_vars

C11_Witness ==
    /\ hasLogger /\ ~hasLogger2
    /\ Same
    /\ gpc2 = "gen_done"
    /\ streamState2 = "end"
    /\ yielded2 = <<Num(1)>>
    /\ delivered2 = delivered
    /\ Len(logs) = 2
    /\ logs2 = <<>>

\* the error a generator alone ends with on reading the last of these lines
AloneError(lines) ==
    IF lines = <<>> THEN NoError
    ELSE LET before == OpenBlock(SubSeq(lines, 1, Len(lines) - 1)) IN
         IF IsViolation(Last(lines)) THEN FormatError(Last(lines))
         ELSE IF Last(lines) = <<>> /\ before # <<>>
                   /\ ~JSONParse(BlockText(before)).ok
           THEN SyntaxError
         ELSE NoError

\* the messages a generator alone parses from these lines
AloneMessages(lines) ==
    IF AloneError(lines) = NoError
      THEN ExpectedMessages(lines)
      ELSE ExpectedMessages(SubSeq(lines, 1, Len(lines) - 1))

\* a generator stands as it would alone on the lines it has read
AsAlone(g, buf, ch, ys, err, lines) ==
    /\ ys \o (IF g = "gen_yield" THEN <<ch>> ELSE <<>>) = AloneMessages(lines)
    /\ err = AloneError(lines)
    /\ g = "gen_wait_line" => buf = PayloadsOf(OpenBlock(lines))

\* C15: of two streaming calls whose line deliveries and pulls are
\* interleaved in any order, each has at every moment the messages, the error
\* and the pending buffer it would have alone on the lines of its own
\* response: nothing of the other call's stream is in them.
C15_StreamsIndependent ==
    /\ AsAlone(gpc, bufferedLines, chunk, yielded, gerr, delivered)
    /\ AsAlone(gpc2, bufferedLines2, chunk2, yielded2, gerr2, delivered2)

C15_Witness ==
    /\ gpc = "gen_wait_line"
    /\ delivered = <<DataOpen>>
    /\ bufferedLines = <<<<"{">>>>
    /\ gpc2 = "gen_suspended"
    /\ delivered2 = <<DataOpen, DataClose, Blank>>
    /\ yielded2 = <<EmptyObj>>

\* C21: the generator of generateContentStream yields the converted decoder
\* messages, one result per message and in the decoder's order, at most the
\* message in hand behind; it is over only when the decoder's sequence is
\* over and every message was passed on, and then with the decoder's error
\* or none.
C21_OnePerMessage ==
    /\ Len(results) <= Len(yielded)
    /\ Len(yielded) <= Len(results) + 1
    /\ \A i \in 1..Len(results) :
          results[i] = [conv |-> "fromGenerateContentResponse", val |-> yielded[i]]
    /\ opc = "done" => /\ gpc = "gen_done"
                       /\ Len(results) = Len(yielded)
                       /\ oerr = gerr
    /\ opc # "done" => oerr = NoError
    /\ (gpc = "gen_done" /\ Len(results) = Len(yielded) /\ opc = "open")
          => ENABLED OuterEnd

C21_Witness ==
    /\ opc = "done"
    /\ oerr = FormatError(Oops)
    /\ delivered = <<DataOne, Blank, Oops>>
    /\ yielded = <<Num(1)>>
    /\ results = <<fromGenerateContentResponse(Num(1))>>

\* the entries of the file that the log call j wrote
EntriesOf(j) == {k \in 1..Len(file) : file[k].call = j}

\* the console lines about the log call j
DiagOf(j) == {k \in 1..Len(diag) : diag[k].of = "log" /\ diag[k].call = j}

\* C22: no log call is rejected; a log call whose append failed has
\* completed normally, its entry is not in the file, and the failure is on
\* the diagnostic output (console.debug), once.
C22_AppendFailureContained ==
    \A j \in 1..Len(logCalls) :
       /\ logCalls[j].st # "rejected"
       /\ logCalls[j].wrote = "failed"
            => /\ logCalls[j].st = "resolved"
               /\ EntriesOf(j) = {}
               /\ Cardinality(DiagOf(j)) = 1
               /\ \A k \in DiagOf(j) : diag[k].out = "debug"
       /\ logCalls[j].wrote # "failed" => DiagOf(j) = {}

C22_Witness ==
    /\ Len(logCalls) = 2
    /\ logCalls[1].wrote = "failed"
    /\ logCalls[1].st = "resolved"
    /\ logCalls[2].wrote = "yes"
    /\ file = <<[call |-> 2, type |-> "model_response"]>>
    /\ diag[Len(diag)] = [out |-> "debug", of |-> "log", call |-> 1]

\* C23: a log call made before any initialize call has succeeded (none made,
\* one suspended at mkdir, or all failed) has completed normally without
\* calling appendFile, and no entry of the file is its.
C23_NoWriteBeforeInitialized ==
    \A j \in 1..Len(logCalls) :
       logCalls[j].succBefore = 0
          => /\ logCalls[j].st = "resolved"
             /\ logCalls[j].wrote = "no"
             /\ EntriesOf(j) = {}
             /\ DiagOf(j) = {}

C23_Witness ==
    /\ Len(initCalls) = 2
    /\ initCalls[1].did = "failed"
    /\ initCalls[2].st = "mkdir"
    /\ logFilePath
    /\ Len(logCalls) = 2
    /\ logCalls[2].succBefore = 0
    /\ logCalls[2].st = "resolved"
    /\ file = <<>>

\* C24 (as claimed): no initialize call is rejected, and an initialize call
\* made after one initialize has succeeded does nothing: it returns without
\* a mkdir call.
C24_InitializeIdempotent ==
    \A i \in 1..Len(initCalls) :
       /\ initCalls[i].st # "rejected"
       /\ initCalls[i].succBefore > 0
            => /\ initCalls[i].st = "resolved"
               /\ initCalls[i].did = "nothing"

\* C25 (as claimed): the entries of the file are in the order of their log
\* calls, and the file only grows at its end.
C25_FileInCallOrder ==
    [][/\ \A k, l \in 1..Len(file') : k < l => file'[k].call < file'[l].call
       /\ Len(file') >= Len(file)
       /\ SubSeq(file', 1, Len(file)) = file]_vars

\* C26 (as claimed): every request carries Content-Type: application/json
\* and every header the caller supplied, whatever the caller supplied.
C26_JsonAndCallerHeaders ==
    \A i \in 1..Len(sent) :
       /\ "Content-Type" \in DOMAIN sent[i].headers
       /\ sent[i].headers["Content-Type"] = "application/json"
       /\ \A n \in DOMAIN httpHeaders.map :
             /\ n \in DOMAIN sent[i].headers
             /\ sent[i].headers[n] = httpHeaders.map[n]

\* C26 (amended): every request carries every header the caller supplied,
\* as supplied, and a Content-Type header, which is application/json unless
\* the caller supplied a Content-Type of its own; it carries nothing else.
C26_CallerHeadersWin ==
    \A i \in 1..Len(sent) :
       /\ DOMAIN sent[i].headers = {"Content-Type"} \cup DOMAIN httpHeaders.map
       /\ \A n \in DOMAIN httpHeaders.map : sent[i].headers[n] = httpHeaders.map[n]
       /\ "Content-Type" \notin DOMAIN httpHeaders.map
             => sent[i].headers["Content-Type"] = "application/json"

C26_Witness ==
    /\ Len(sent) = 2
    /\ sent[1].kind = "GET"
    /\ sent[2].kind = "POST-sse"
    /\ httpHeaders.defined
    /\ DOMAIN httpHeaders.map = {"Content-Type", "X-Goog-Api-Client"}
    /\ httpHeaders.map["Content-Type"] = "text/plain"
    /\ sent[2].headers["Content-Type"] = "text/plain"
    /\ sent[2].headers = sent[1].headers

====
